---- MODULE Spec2Model ----
(***************************************************************************)
(* Model of package auth (src/auth.go): the AuthError taxonomy, the        *)
(* request-context association (SetUserContext / UserFromContext) and the  *)
(* Authenticator middleware contract.                                      *)
(***************************************************************************)
EXTENDS Integers, Sequences, FiniteSets, TLC

(* ------------------------------ bounds --------------------------------- *)
\* number of derived contexts (valueCtx nodes) the context heap may hold
MaxCtx == 3
\* nesting depth of a constructed error value
MaxDepth == 2
\* length of a principal's Roles slice
MaxRoles == 2
\* number of roles passed to MiddlewareWithRoles
MaxRequired == 2

(* --------------------------- program constants ------------------------- *)
\* net/http status codes used by the var block
StatusUnauthorized == 401
StatusForbidden == 403

(* ------------------------------ contexts ------------------------------- *)
\* A context is an id into the heap of valueCtx nodes; 0 is
\* context.Background().  A node is [parent, key, val]; nodes are only ever
\* appended by context.WithValue.
Background == 0

\* A context key is an interface value: Go compares dynamic type and value.
\* `type contextKey string` is a type of its own, distinct from string.
userContextKeyAsPlainString == [type |-> "string", val |-> "authenticated_user"]
userContextKey == [type |-> "auth.contextKey", val |-> "authenticated_user"]

\* keys other packages can build: the plain string with the same text, and a
\* same-named key type declared in another package
PlainKey == [type |-> "string", val |-> "authenticated_user"]
OtherPkgKey == [type |-> "other.contextKey", val |-> "authenticated_user"]
ForeignKeys == {PlainKey, OtherPkgKey}

\* *AuthenticatedUser pointers a caller can hold; "nil" is the nil pointer
UserPtrs == {"p1", "p2"}
NilUser == "nil"

\* interface{} values held by a context
NilIface == [type |-> "nil", v |-> "nil"]
UserIface(p) == [type |-> "*AuthenticatedUser", v |-> p]
ForeignVals == {UserIface("p1"), UserIface("p2"), [type |-> "string", v |-> "x"]}

VARIABLES heap, setBy, err, req,
          ErrInvalidCredentials, ErrExpiredCredentials,
          ErrMissingCredentials, ErrAccessDenied

vars == <<heap, setBy, err, req, ErrInvalidCredentials,
          ErrExpiredCredentials, ErrMissingCredentials, ErrAccessDenied>>
errorVarNames == <<ErrInvalidCredentials, ErrExpiredCredentials,
                   ErrMissingCredentials, ErrAccessDenied>>

RECURSIVE ValueOldest(_, _, _)
\* faulty variant of Value: an ancestor's entry wins over the derived context's own
ValueOldest(h, c, key) ==
    IF c = Background THEN NilIface
    ELSE LET up == ValueOldest(h, h[c].parent, key)
         IN  IF up # NilIface THEN up
             ELSE IF h[c].key = key THEN h[c].val ELSE NilIface

RECURSIVE Value(_, _, _)
\* ctx.Value(key): the nearest node on the parent chain whose key is equal
Value(h, c, key) ==
    IF c = Background THEN NilIface
    ELSE IF h[c].key = key THEN h[c].val
    ELSE Value(h, h[c].parent, key)

\* context.WithValue(parent, key, val): a new node; the parent is untouched
WithValue(h, parent, key, val) ==
    [heap |-> Append(h, [parent |-> parent, key |-> key, val |-> val]),
     ctx  |-> Len(h) + 1]

\* faulty variant of UserFromContext: single-value type assertion, which panics when
\* the value is absent or of another type
UserFromContextMustAssert(h, c) ==
    LET x == Value(h, c, userContextKey)
    IN  IF x.type = "*AuthenticatedUser"
        THEN [user |-> x.v, ok |-> TRUE, panicked |-> FALSE]
        ELSE [user |-> NilUser, ok |-> FALSE, panicked |-> TRUE]

\* user, ok := ctx.Value(userContextKey).(*AuthenticatedUser)
UserFromContext(h, c) ==
    LET x == Value(h, c, userContextKey)
    IN  IF x.type = "*AuthenticatedUser"
        THEN [user |-> x.v, ok |-> TRUE, panicked |-> FALSE]
        ELSE [user |-> NilUser, ok |-> FALSE, panicked |-> FALSE]

\* faulty variant of SetUserContext: stores the struct, not the pointer
SetUserContextByValue(h, c, user) ==
    WithValue(h, c, userContextKey, [type |-> "AuthenticatedUser", v |-> user])

\* faulty variant of SetUserContext: reuses the parent node when it already carries
\* a principal, overwriting it in place
SetUserContextInPlace(h, c, user) ==
    IF c # Background /\ h[c].key = userContextKey
    THEN [heap |-> [h EXCEPT ![c].val = UserIface(user)], ctx |-> c]
    ELSE WithValue(h, c, userContextKey, UserIface(user))

\* return context.WithValue(ctx, userContextKey, user)
SetUserContext(h, c, user) ==
    WithValue(h, c, userContextKey, UserIface(user))

(* ------------------------------- errors -------------------------------- *)
\* the nil error, and a scheme-specific cause built with errors.New
NilErr == [kind |-> "nil"]
Cause == [kind |-> "errorString", s |-> "signature mismatch"]

\* type AuthError struct { Code int; Message string; Err error }
AuthError(code, message, cause) ==
    [kind |-> "AuthError", Code |-> code, Message |-> message, Err |-> cause]

\* func (e AuthError) Error() string
Error(e) == IF e.kind = "AuthError" THEN e.Message ELSE e.s

\* func (e AuthError) Unwrap() error; an errorString has no Unwrap method
Unwrap(e) == IF e.kind = "AuthError" THEN e.Err ELSE NilErr

\* faulty variant of errorVars: the role failure reported as 401 as well
errorVarsDenied401 ==
    [ErrInvalidCredentials |-> AuthError(StatusUnauthorized, "invalid credentials", NilErr),
     ErrExpiredCredentials |-> AuthError(StatusUnauthorized, "expired credentials", NilErr),
     ErrMissingCredentials |-> AuthError(StatusUnauthorized, "crendentials not provided", NilErr),
     ErrAccessDenied       |-> AuthError(StatusUnauthorized, "access denied", NilErr)]

\* the package-level var block
errorVars ==
    [ErrInvalidCredentials |-> AuthError(StatusUnauthorized, "invalid credentials", NilErr),
     ErrExpiredCredentials |-> AuthError(StatusUnauthorized, "expired credentials", NilErr),
     ErrMissingCredentials |-> AuthError(StatusUnauthorized, "crendentials not provided", NilErr),
     ErrAccessDenied       |-> AuthError(StatusForbidden, "access denied", NilErr)]

Codes == {StatusUnauthorized, StatusForbidden, 500}
Messages == {"invalid credentials", "expired credentials",
             "crendentials not provided", "access denied", "store unavailable"}

RECURSIVE Depth(_)
Depth(e) == IF e.kind = "AuthError" THEN 1 + Depth(e.Err) ELSE 0

(* ------------------------------ principals ----------------------------- *)
RoleNames == {"admin", "editor", "Admin"}
UserIDs == {"alice"}

SeqsUpTo(S, n) == UNION {[1..k -> S] : k \in 0..n}

\* type AuthenticatedUser struct { ID; Username; Roles; Metadata }
AuthenticatedUser(id, roles) ==
    [ID |-> id, Username |-> id, Roles |-> roles, Metadata |-> <<>>]
NoPrincipal == AuthenticatedUser("", <<>>)

(* ------------------------- middleware dispatch ------------------------- *)
Idle ==
    [state |-> "Unauthenticated", mw |-> "plain", required |-> <<>>,
     ctx |-> Background, err |-> NilErr, user |-> NilUser,
     principal |-> NoPrincipal, nextRan |-> FALSE,
     unauthorizedRan |-> FALSE, forbiddenRan |-> FALSE,
     handlerCtx |-> Background]

\* faulty variant of HasAnyRole: the principal must hold every required role
HasAllRoles(roles, required) ==
    \A j \in DOMAIN required : \E i \in DOMAIN roles : roles[i] = required[j]

\* role check of MiddlewareWithRoles: one shared element is enough
HasAnyRole(roles, required) ==
    \E i \in DOMAIN roles : \E j \in DOMAIN required : roles[i] = required[j]

\* faulty variant of Reject: the failure handler runs but the wrapper does not return
RejectAndContinue(r, e) ==
    [r EXCEPT !.state = "Authenticated", !.err = e, !.unauthorizedRan = TRUE]

\* Authenticating -> Rejected
Reject(r, e) ==
    [r EXCEPT !.state = "Rejected", !.err = e, !.unauthorizedRan = TRUE]

\* Authenticating -> Authenticated, with the derived request context
Attach(r, p, u, c) ==
    [r EXCEPT !.state = "Authenticated", !.user = p, !.principal = u, !.ctx = c]

\* Authenticated -> {Authorized, Denied}
Authorize(r) ==
    IF HasAnyRole(r.principal.Roles, r.required)
    THEN [r EXCEPT !.state = "Authorized"]
    ELSE [r EXCEPT !.state = "Denied", !.forbiddenRan = TRUE]

\* next.ServeHTTP(w, r.WithContext(ctx))
Serve(r) ==
    [r EXCEPT !.state = "Done", !.nextRan = TRUE, !.handlerCtx = r.ctx]

(* ------------------------------- state --------------------------------- *)
Ctxs == 0..Len(heap)

\* setBy records, for each context SetUserContext returned, the user it was
\* called with
Record(m, c, u) == [x \in DOMAIN m \cup {c} |-> IF x = c THEN u ELSE m[x]]

Init ==
    /\ heap = <<>>
    /\ setBy = <<>>
    /\ err = NilErr
    /\ req = Idle
    /\ ErrInvalidCredentials = errorVars.ErrInvalidCredentials
    /\ ErrExpiredCredentials = errorVars.ErrExpiredCredentials
    /\ ErrMissingCredentials = errorVars.ErrMissingCredentials
    /\ ErrAccessDenied = errorVars.ErrAccessDenied

(* ---------------------------- context calls ---------------------------- *)
\* some caller derives a context carrying user
CallSetUserContext ==
    \E c \in Ctxs, u \in UserPtrs \cup {NilUser} :
        /\ Len(heap) < MaxCtx
        /\ LET r == SetUserContext(heap, c, u)
           IN  /\ heap' = r.heap
               /\ setBy' = Record(setBy, r.ctx, u)
        /\ UNCHANGED <<err, req, errorVarNames>>

\* other middleware stores its own value under its own key
CallWithValue ==
    \E c \in Ctxs, k \in ForeignKeys, x \in ForeignVals :
        /\ Len(heap) < MaxCtx
        /\ LET r == WithValue(heap, c, k, x)
           IN  /\ heap' = r.heap
               /\ setBy' = setBy
        /\ UNCHANGED <<err, req, errorVarNames>>

NextCtx == CallSetUserContext \/ CallWithValue

SpecCtx == Init /\ [][NextCtx]_vars

(* ------------------------- error construction -------------------------- *)
\* errors.New(...) in a scheme
NewCause ==
    /\ err = NilErr
    /\ err' = Cause
    /\ UNCHANGED <<heap, setBy, req, errorVarNames>>

\* AuthError{Code: code, Message: message, Err: err}
NewAuthError ==
    \E code \in Codes, message \in Messages :
        /\ Depth(err) < MaxDepth
        /\ err' = AuthError(code, message, err)
        /\ UNCHANGED <<heap, setBy, req, errorVarNames>>

\* the error is dropped
DropError ==
    /\ err # NilErr
    /\ err' = NilErr
    /\ UNCHANGED <<heap, setBy, req, errorVarNames>>

NextErr == NewCause \/ NewAuthError \/ DropError

SpecErr == Init /\ [][NextErr]_vars

(* ------------------------------ middleware ----------------------------- *)
AuthenticateErrors ==
    LET three == {ErrMissingCredentials, ErrInvalidCredentials,
                  ErrExpiredCredentials}
    IN  three \cup
        {AuthError(500, "store unavailable", e) : e \in three}

\* a request enters Middleware()
EnterMiddleware ==
    \E c \in Ctxs :
        /\ req.state = "Unauthenticated"
        /\ req' = [req EXCEPT !.state = "Authenticating", !.mw = "plain",
                              !.ctx = c]
        /\ UNCHANGED <<heap, setBy, err, errorVarNames>>

\* a request enters MiddlewareWithRoles(required...)
EnterMiddlewareWithRoles ==
    \E c \in Ctxs, required \in SeqsUpTo(RoleNames, MaxRequired) :
        /\ req.state = "Unauthenticated"
        /\ req' = [req EXCEPT !.state = "Authenticating", !.mw = "roles",
                              !.required = required, !.ctx = c]
        /\ UNCHANGED <<heap, setBy, err, errorVarNames>>

\* Authenticate returns (user, nil)
AuthenticateOK ==
    \E p \in UserPtrs, id \in UserIDs, roles \in SeqsUpTo(RoleNames, MaxRoles) :
        /\ req.state = "Authenticating"
        /\ Len(heap) < MaxCtx
        /\ LET r == SetUserContext(heap, req.ctx, p)
           IN  /\ heap' = r.heap
               /\ setBy' = Record(setBy, r.ctx, p)
               /\ req' = Attach(req, p, AuthenticatedUser(id, roles), r.ctx)
        /\ UNCHANGED <<err, errorVarNames>>

\* Authenticate returns (nil, e)
AuthenticateFail ==
    \E e \in AuthenticateErrors :
        /\ req.state = "Authenticating"
        /\ req' = Reject(req, e)
        /\ UNCHANGED <<heap, setBy, err, errorVarNames>>

\* Middleware(): Authenticated -> downstream handler
Continue ==
    /\ req.state = "Authenticated"
    /\ req.mw = "plain"
    /\ req' = Serve(req)
    /\ UNCHANGED <<heap, setBy, err, errorVarNames>>

\* MiddlewareWithRoles(): Authenticated -> Authorized or Denied
CheckRoles ==
    /\ req.state = "Authenticated"
    /\ req.mw = "roles"
    /\ req' = Authorize(req)
    /\ UNCHANGED <<heap, setBy, err, errorVarNames>>

\* MiddlewareWithRoles(): Authorized -> downstream handler
ContinueAuthorized ==
    /\ req.state = "Authorized"
    /\ req' = Serve(req)
    /\ UNCHANGED <<heap, setBy, err, errorVarNames>>

\* the request is over; the next one arrives
NextRequest ==
    /\ req.state \in {"Rejected", "Denied", "Done"}
    /\ req' = Idle
    /\ UNCHANGED <<heap, setBy, err, errorVarNames>>

NextMw ==
    \/ EnterMiddleware
    \/ EnterMiddlewareWithRoles
    \/ AuthenticateOK
    \/ AuthenticateFail
    \/ Continue
    \/ CheckRoles
    \/ ContinueAuthorized
    \/ NextRequest

SpecMw == Init /\ [][NextMw]_vars

(* ============================== properties ============================= *)
Absent == [user |-> NilUser, ok |-> FALSE, panicked |-> FALSE]
Found(u) == [user |-> u, ok |-> TRUE, panicked |-> FALSE]

RECURSIVE NearestOwn(_)
\* the nearest context on c's chain that SetUserContext returned, or 0
NearestOwn(c) ==
    IF c = Background THEN 0
    ELSE IF c \in DOMAIN setBy THEN c
    ELSE NearestOwn(heap[c].parent)

RECURSIVE NearestForeign(_, _)
\* the nearest context on c's chain that other code derived under key k, or 0
NearestForeign(c, k) ==
    IF c = Background THEN 0
    ELSE IF c \notin DOMAIN setBy /\ heap[c].key = k THEN c
    ELSE NearestForeign(heap[c].parent, k)

\* C1: reading back the context SetUserContext(ctx, u) returned yields exactly
\* u with found = true, whatever ctx already carried; the most recent
\* SetUserContext on the chain is the one read back.
C1_SetThenGet ==
    \A c \in DOMAIN setBy : UserFromContext(heap, c) = Found(setBy[c])

\* a context derived from one that already carried a different principal
C1_Witness ==
    \E c \in DOMAIN setBy :
        /\ heap[c].parent \in DOMAIN setBy
        /\ setBy[heap[c].parent] # setBy[c]
        /\ setBy[c] \in UserPtrs
        /\ UserFromContext(heap, c) = Found(setBy[c])

\* C2: on a context with no SetUserContext anywhere on its chain,
\* UserFromContext returns the nil principal with found = false and does not
\* panic.
C2_AbsentWithoutSet ==
    \A c \in Ctxs : NearestOwn(c) = 0 => UserFromContext(heap, c) = Absent

\* a derived context, holding only other code's values, reads as absent
C2_Witness ==
    \E c \in Ctxs :
        /\ c # Background
        /\ NearestOwn(c) = 0
        /\ heap[c].val.type = "*AuthenticatedUser"
        /\ UserFromContext(heap, c) = Absent

\* C6: the association key collides with no key other code can build:
\* UserFromContext reads only what SetUserContext stored, and a lookup under
\* the plain string "authenticated_user" reads only what other code stored.
C6_KeyPrivate ==
    \A c \in Ctxs :
        /\ UserFromContext(heap, c) =
              IF NearestOwn(c) = 0 THEN Absent
              ELSE Found(setBy[NearestOwn(c)])
        /\ Value(heap, c, PlainKey) =
              IF NearestForeign(c, PlainKey) = 0 THEN NilIface
              ELSE heap[NearestForeign(c, PlainKey)].val

\* SetUserContext applied on top of a user stored under the plain string key:
\* each lookup still reads its own value
C6_Witness ==
    \E c \in DOMAIN setBy :
        /\ heap[c].parent # Background
        /\ heap[heap[c].parent].key = PlainKey
        /\ heap[heap[c].parent].val.type = "*AuthenticatedUser"
        /\ heap[heap[c].parent].val.v # setBy[c]
        /\ Value(heap, c, PlainKey) = heap[heap[c].parent].val
        /\ UserFromContext(heap, c) = Found(setBy[c])

\* C7: a step never changes what UserFromContext returns for a context that
\* already existed: the input context and every other context derived from
\* it read as before.
C7_Frame ==
    [][\A c \in Ctxs : UserFromContext(heap', c) = UserFromContext(heap, c)]_vars

\* two contexts derived from the same parent, each reading its own principal
C7_Witness ==
    \E a \in DOMAIN setBy, b \in DOMAIN setBy :
        /\ a < b
        /\ heap[a].parent = heap[b].parent
        /\ heap[a].parent \in DOMAIN setBy
        /\ Cardinality({setBy[a], setBy[b], setBy[heap[a].parent]}) = 3
        /\ UserFromContext(heap, a) = Found(setBy[a])
        /\ UserFromContext(heap, b) = Found(setBy[b])
        /\ UserFromContext(heap, heap[a].parent) = Found(setBy[heap[a].parent])

Canonical ==
    {ErrMissingCredentials, ErrInvalidCredentials, ErrExpiredCredentials,
     ErrAccessDenied}

RECURSIVE UnwrapChain(_)
\* the errors errors.Is visits: e, Unwrap(e), Unwrap(Unwrap(e)), ...
UnwrapChain(e) == IF e = NilErr THEN {} ELSE {e} \cup UnwrapChain(Unwrap(e))

\* errors.Is(e, c) for some canonical c: AuthError has no Is method, so the
\* match is Go's == on the struct, all three fields
Resolves(e) == UnwrapChain(e) \cap Canonical # {}

\* e, or an error it wraps, is an AuthError with a canonical Code and Message
InFailureCategory(e) ==
    \E x \in UnwrapChain(e) :
        /\ x.kind = "AuthError"
        /\ \E c \in Canonical : x.Code = c.Code /\ x.Message = c.Message

\* C5: every error of the four failure categories resolves, via its unwrap
\* chain, to one of the four canonical values, also when it carries a
\* canonical Code and Message together with a non-nil cause in Err.
C5_ResolvesToCanonical == InFailureCategory(err) => Resolves(err)

\* C9: the three credential errors carry 401, ErrAccessDenied carries 403,
\* and the four (Code, Message) pairs are pairwise different.
C9_Taxonomy ==
    /\ ErrMissingCredentials.Code = 401
    /\ ErrInvalidCredentials.Code = 401
    /\ ErrExpiredCredentials.Code = 401
    /\ ErrAccessDenied.Code = 403
    /\ Cardinality({<<c.Code, c.Message>> : c \in Canonical}) = 4

\* an AuthError literal with the canonical fields of ErrAccessDenied is that
\* value, and wrapped in another error it is found on the unwrap chain
C9_Witness ==
    /\ err.kind = "AuthError"
    /\ err.Code = 500
    /\ Unwrap(err) = ErrAccessDenied
    /\ Unwrap(err).Code = 403
    /\ Resolves(err)

CredentialErrors ==
    {ErrMissingCredentials, ErrInvalidCredentials, ErrExpiredCredentials}

\* C3: once Authenticate has returned one of the three credential errors for
\* the request, UnauthorizedHandler has run and the downstream handler has
\* not.
C3_RejectShortCircuits ==
    req.err \in CredentialErrors => req.unauthorizedRan /\ ~req.nextRan

\* a request without credentials, rejected behind Middleware()
C3_Witness ==
    /\ req.mw = "plain"
    /\ req.state = "Rejected"
    /\ req.err = ErrMissingCredentials
    /\ req.unauthorizedRan
    /\ ~req.nextRan

Range(f) == {f[i] : i \in DOMAIN f}
Intersects(r) == Range(r.principal.Roles) \cap Range(r.required) # {}

\* C4: behind MiddlewareWithRoles, after the role check the request is on its
\* way to the downstream handler exactly when Roles and the required roles
\* share an element; otherwise ForbiddenHandler has run and the downstream
\* handler has not.
C4_RoleIntersection ==
    req.mw = "roles" =>
        /\ req.state \in {"Authorized", "Done"} => Intersects(req)
        /\ req.state = "Denied" => ~Intersects(req)
        /\ req.nextRan => Intersects(req) /\ ~req.forbiddenRan
        /\ req.state = "Done" => req.nextRan
        /\ req.state = "Denied" => req.forbiddenRan /\ ~req.nextRan

\* Roles = {"editor"} through MiddlewareWithRoles("admin", "editor")
C4_Witness ==
    /\ req.mw = "roles"
    /\ req.principal.Roles = <<"editor">>
    /\ req.required = <<"admin", "editor">>
    /\ req.state = "Done"
    /\ req.nextRan

====
